---- MODULE Spec2Model ----
(***************************************************************************)
(* Model of editingchecks.py: the helper functions findall, findall_blank  *)
(* and verify, and the report driver runchecks(lines, charlist).           *)
(*                                                                         *)
(* A character is its Unicode code point (ord), a string is a sequence of  *)
(* characters.  Python positions are 0-based and are kept 0-based in the   *)
(* state; TLA+ sequences are 1-based, so position p of a string s is       *)
(* s[p + 1].                                                               *)
(***************************************************************************)
EXTENDS Integers, Sequences, FiniteSets

(***************************************************************************)
(* Characters (code points).                                               *)
(***************************************************************************)
NEWLINE == 10
SPACE == 32
QUOTE == 34
APOSTROPHE == 39
PERIOD == 46
LBRACKET == 91
RBRACKET == 93
NDASH == 8211
MDASH == 8212
LSQUO == 8216
RSQUO == 8217
LDQUO == 8220
RDQUO == 8221
HELLIP == 8230

\* CHARS_WORTH_CHECKING, editingchecks.py:24
CHARS_WORTH_CHECKING == {NDASH, MDASH, QUOTE, APOSTROPHE, LSQUO, RSQUO, LDQUO, RDQUO, HELLIP}

\* PUNCTUATION, editingchecks.py:37: . , ? ! em dash, ellipsis
PUNCTUATION == {PERIOD, 44, 63, 33, MDASH, HELLIP}

\* the number of characters shown to the left and right of a character
SNIPPET_RADIUS == 10

\* the list /defined/ of verify, editingchecks.py:71
defined == {NDASH, MDASH, LSQUO, RSQUO, LDQUO, RDQUO, HELLIP}

(***************************************************************************)
(* str.isalpha and str.isspace, for the code points below U+0100 and for   *)
(* the General Punctuation block U+2000..U+206F (where the typographic     *)
(* characters live): the characters the model draws all lie in these.      *)
(***************************************************************************)
isalpha(c) ==
    \/ c \in 65..90
    \/ c \in 97..122
    \/ c \in {170, 181, 186}
    \/ c \in 192..214
    \/ c \in 216..246
    \/ c \in 248..255

isspace(c) ==
    \/ c \in 9..13
    \/ c \in 28..32
    \/ c \in {133, 160}
    \/ c \in 8192..8202
    \/ c \in {8232, 8233, 8239, 8287}

(***************************************************************************)
(* Python string primitives.                                               *)
(***************************************************************************)
Min(a, b) == IF a < b THEN a ELSE b

\* s[a:b] for 0 <= a, 0 <= b: the slice is clipped to the string
Slice(s, a, b) == SubSeq(s, a + 1, Min(b, Len(s)))

\* n * " "
Blanks(n) == [i \in 1..n |-> SPACE]

\* The outcome of an index expression s[i]: the character, or NoChar when
\* Python raises IndexError (i may be negative: s[-1] is the last character).
NoChar == -1
Idx(s, i) ==
    IF i >= 0
    THEN IF i < Len(s) THEN s[i + 1] ELSE NoChar
    ELSE IF -i <= Len(s) THEN s[Len(s) + i + 1] ELSE NoChar

\* line.rstrip('\n'): every trailing newline is removed
RECURSIVE rstrip_newline(_)
rstrip_newline(s) ==
    IF Len(s) > 0 /\ s[Len(s)] = NEWLINE
    THEN rstrip_newline(SubSeq(s, 1, Len(s) - 1))
    ELSE s

\* needle in s, for strings
Contains(s, needle) ==
    \E k \in 0..(Len(s) - Len(needle)) : SubSeq(s, k + 1, k + Len(needle)) = needle

(***************************************************************************)
(* A Python boolean expression evaluates to "True" or "False", or raises:  *)
(* "IndexError".  /and/ and /or/ evaluate left to right and short-circuit, *)
(* so an operand that raises is only reached when the operands before it   *)
(* do not decide the result.                                               *)
(***************************************************************************)
Bool(b) == IF b THEN "True" ELSE "False"
PyAnd(a, b) == IF a = "IndexError" THEN "IndexError" ELSE IF a = "False" THEN "False" ELSE b
PyOr(a, b) == IF a = "IndexError" THEN "IndexError" ELSE IF a = "True" THEN "True" ELSE b
IsAlphaAt(s, i) == IF Idx(s, i) = NoChar THEN "IndexError" ELSE Bool(isalpha(Idx(s, i)))
IsSpaceAt(s, i) == IF Idx(s, i) = NoChar THEN "IndexError" ELSE Bool(isspace(Idx(s, i)))
EqualsAt(s, i, c) == IF Idx(s, i) = NoChar THEN "IndexError" ELSE Bool(Idx(s, i) = c)
InPunctuationAt(s, i) == IF Idx(s, i) = NoChar THEN "IndexError" ELSE Bool(Idx(s, i) \in PUNCTUATION)

(***************************************************************************)
(* findall(string, character): all positions of a character, by one scan   *)
(* over enumerate(string).                                                 *)
(***************************************************************************)
RECURSIVE findall_from(_, _, _)
findall_from(string, character, i) ==
    IF i >= Len(string) THEN <<>>
    ELSE IF string[i + 1] = character
         THEN <<i>> \o findall_from(string, character, i + 1)
         ELSE findall_from(string, character, i + 1)

findall(string, character) == findall_from(string, character, 0)

RECURSIVE findall_blank_from(_, _)
findall_blank_from(string, i) ==
    IF i >= Len(string) THEN <<>>
    ELSE IF isspace(string[i + 1])
         THEN <<i>> \o findall_blank_from(string, i + 1)
         ELSE findall_blank_from(string, i + 1)

findall_blank(string) == findall_blank_from(string, 0)

(***************************************************************************)
(* verify(character, left_context, right_context)                          *)
(***************************************************************************)
\* (chr(8221) or chr(8217)): /or/ yields its first truthy operand, and a
\* one-character string is truthy
closing_mark == RDQUO
\* (chr(8220) or chr(8216))
opening_mark == LDQUO

\* the padding of the ellipsis rule
pad_left(left_context) ==
    IF Len(left_context) < 2 THEN Blanks(2 - Len(left_context)) \o left_context ELSE left_context
pad_right(right_context) ==
    IF Len(right_context) < 2 THEN right_context \o Blanks(2 - Len(right_context)) ELSE right_context

verify_hellip(l, r) ==
    PyOr(PyAnd(EqualsAt(l, -1, LBRACKET), EqualsAt(r, 0, RBRACKET)),
    PyOr(PyAnd(IsAlphaAt(l, -2), PyAnd(IsSpaceAt(l, -1),
               PyAnd(IsSpaceAt(r, 0), IsAlphaAt(r, 1)))),
    PyOr(PyAnd(IsAlphaAt(l, -2), PyAnd(IsSpaceAt(l, -1), EqualsAt(r, 0, closing_mark))),
         PyAnd(EqualsAt(l, 0, opening_mark), PyAnd(IsSpaceAt(r, 0), IsAlphaAt(r, 1))))))

verify_mdash(l, r) == PyAnd(IsAlphaAt(l, -1), IsAlphaAt(r, 0))

verify_ndash(l, r) ==
    PyOr(PyAnd(IsAlphaAt(l, -1), IsAlphaAt(r, 0)),
         PyAnd(IsAlphaAt(l, -2), PyAnd(IsSpaceAt(l, -1),
               PyAnd(IsSpaceAt(r, 0), IsAlphaAt(r, 1)))))

verify_lquote(l, r) ==
    IF Len(l) > 0 /\ Len(r) > 0 THEN PyAnd(IsSpaceAt(l, -1), IsAlphaAt(r, 0))
    ELSE IF Len(l) = 0 THEN IsAlphaAt(r, 0)
    ELSE "False"

verify_rsquo(l, r) ==
    IF Len(l) > 0 /\ Len(r) > 0
    THEN PyOr(PyAnd(PyOr(IsAlphaAt(l, -1), InPunctuationAt(l, -1)), IsSpaceAt(r, 0)),
              PyAnd(IsAlphaAt(l, -1), IsAlphaAt(r, 0)))
    ELSE IF Len(r) = 0 THEN PyOr(IsAlphaAt(l, -1), InPunctuationAt(l, -1))
    ELSE "False"

verify_rdquo(l, r) ==
    IF Len(l) > 0 /\ Len(r) > 0
    THEN PyAnd(PyOr(IsAlphaAt(l, -1), InPunctuationAt(l, -1)), IsSpaceAt(r, 0))
    ELSE IF Len(r) = 0 THEN PyOr(IsAlphaAt(l, -1), InPunctuationAt(l, -1))
    ELSE "False"

\* the value verify returns ("True" / "False"), or "IndexError" when it raises
verify(c, left_context, right_context) ==
    IF c \notin defined THEN "False"
    ELSE IF c = HELLIP THEN verify_hellip(pad_left(left_context), pad_right(right_context))
    ELSE IF c = MDASH THEN verify_mdash(left_context, right_context)
    ELSE IF c = NDASH THEN verify_ndash(left_context, right_context)
    ELSE IF c = LSQUO \/ c = LDQUO THEN verify_lquote(left_context, right_context)
    ELSE IF c = RSQUO THEN verify_rsquo(left_context, right_context)
    ELSE verify_rdquo(left_context, right_context)

\* what verify writes to sys.stderr: the character it has no checks for
verify_stderr(c) == IF c \notin defined THEN <<c>> ELSE <<>>

(***************************************************************************)
(* runchecks(lines, charlist)                                              *)
(***************************************************************************)
VARIABLES
    lines,                \* the document: the strings readlines() returned
    charlist,             \* the characters to check
    pc,                   \* the position of the program
    index,                \* enumerate(lines): 0-based number of the current line
    itemIdx,              \* the number of the items of charlist already handled
    found_any,
    any_unverified,
    unverified_this_line,
    buffer,               \* the print buffer of the current line
    item_positions,
    posIdx,               \* the number of the positions already handled
    position,
    character,            \* the arguments of the current call of verify
    left_context,
    right_context,
    verdict,              \* what that call returned or raised
    out,                  \* sys.stdout: one record per printed line of text
    err,                  \* sys.stderr: the characters verify has no checks for
    ret                   \* the value runchecks returned, -1 before it returns

vars == <<lines, charlist, pc, index, itemIdx, found_any, any_unverified,
          unverified_this_line, buffer, item_positions, posIdx, position,
          character, left_context, right_context, verdict, out, err, ret>>

\* One printed line of text; the fields a kind does not use keep these defaults.
Text(kind) ==
    [kind |-> kind, line |-> 0, pos |-> 0, len |-> 0, item |-> 0,
     left |-> <<>>, right |-> <<>>, list |-> <<>>]

item == charlist[itemIdx + 1]

(***************************************************************************)
(* The blank space check of one line.                                      *)
(***************************************************************************)
\* groupby(enumerate(blanks), lambda x: x[0] - x[1]), each group mapped to its
\* positions: consecutive entries with the same key form one group
RECURSIVE groupby_from(_, _, _)
groupby_from(blanks, k, groups) ==
    IF k > Len(blanks) THEN groups
    ELSE IF k > 1 /\ (k - 1) - blanks[k] = (k - 2) - blanks[k - 1]
         THEN groupby_from(blanks, k + 1,
                  [groups EXCEPT ![Len(groups)] = Append(@, blanks[k])])
         ELSE groupby_from(blanks, k + 1, Append(groups, <<blanks[k]>>))

blank_groups(blanks) == groupby_from(blanks, 1, <<>>)

\* the test of the group length off by one
blank_sequences_longer(blanks) == SelectSeq(blank_groups(blanks), LAMBDA g : Len(g) > 2)

blank_sequences(blanks) == SelectSeq(blank_groups(blanks), LAMBDA g : Len(g) > 1)

\* what the blank check prints for line number /index/ (0-based)
blank_report(line, i) ==
    LET blanks == findall_blank(line)
        sequences == blank_sequences(blanks)
        header == IF Len(sequences) > 0
                  THEN <<[Text("blank_line") EXCEPT !.line = i + 1]>>
                  ELSE <<>>
        body == [k \in 1..Len(sequences) |->
                    [Text("blank_sequence") EXCEPT !.line = i + 1,
                                                   !.pos = sequences[k][1],
                                                   !.len = Len(sequences[k])]]
        at_end == blanks[Len(blanks)] = Len(line) - 1
        trailing == IF at_end
                    THEN <<[Text("blank_at_end") EXCEPT !.line = i + 1]>>
                    ELSE <<>>
        separator == IF Len(sequences) > 0 \/ at_end THEN <<Text("empty")>> ELSE <<>>
    IN  IF Len(blanks) = 0 THEN <<>>
        ELSE header \o body \o trailing \o separator

Start ==
    /\ pc = "start"
    /\ out' = Append(out, Text("blanks_begin"))
    /\ index' = 0
    /\ pc' = "blanks"
    /\ UNCHANGED <<lines, charlist, itemIdx, found_any, any_unverified,
                   unverified_this_line, buffer, item_positions, posIdx, position,
                   character, left_context, right_context, verdict, err, ret>>

BlankCheckLine ==
    /\ pc = "blanks"
    /\ index < Len(lines)
    /\ out' = out \o blank_report(rstrip_newline(lines[index + 1]), index)
    /\ index' = index + 1
    /\ UNCHANGED <<lines, charlist, pc, itemIdx, found_any, any_unverified,
                   unverified_this_line, buffer, item_positions, posIdx, position,
                   character, left_context, right_context, verdict, err, ret>>

BlankDone ==
    /\ pc = "blanks"
    /\ index = Len(lines)
    /\ out' = out \o <<Text("blanks_done"), Text("periods_begin")>>
    /\ pc' = "periods"
    /\ UNCHANGED <<lines, charlist, index, itemIdx, found_any, any_unverified,
                   unverified_this_line, buffer, item_positions, posIdx, position,
                   character, left_context, right_context, verdict, err, ret>>

(***************************************************************************)
(* The check for bad periods and unconverted ellipses.                     *)
(***************************************************************************)
two_periods == <<PERIOD, PERIOD>>
unpadded == <<PERIOD, PERIOD, PERIOD>>
padded == <<PERIOD, SPACE, PERIOD, SPACE, PERIOD>>

\* the check without the space-padded pattern
found_in_lines_unpadded(doc) ==
    {i + 1 : i \in {j \in 0..(Len(doc) - 1) :
                       \/ Contains(doc[j + 1], two_periods)
                       \/ Contains(doc[j + 1], unpadded)}}

found_in_lines(doc) ==
    {i + 1 : i \in {j \in 0..(Len(doc) - 1) :
                       \/ Contains(doc[j + 1], two_periods)
                       \/ Contains(doc[j + 1], unpadded)
                       \/ Contains(doc[j + 1], padded)}}

\* sorted(list(S)) for a set of integers
RECURSIVE sorted(_)
sorted(S) ==
    IF S = {} THEN <<>>
    ELSE LET least == CHOOSE x \in S : \A y \in S : x <= y
         IN  <<least>> \o sorted(S \ {least})

PeriodCheck ==
    /\ pc = "periods"
    /\ out' = out \o
              (IF Cardinality(found_in_lines(lines)) > 0
               THEN <<Text("periods_found"),
                      [Text("periods_list") EXCEPT !.list = sorted(found_in_lines(lines))]>>
               ELSE <<Text("periods_none")>>)
              \o <<Text("periods_done")>>
    /\ itemIdx' = 0
    /\ pc' = "items"
    /\ UNCHANGED <<lines, charlist, index, found_any, any_unverified,
                   unverified_this_line, buffer, item_positions, posIdx, position,
                   character, left_context, right_context, verdict, err, ret>>

(***************************************************************************)
(* The additional checks for the elements of charlist.                     *)
(***************************************************************************)
ItemStart ==
    /\ pc = "items"
    /\ itemIdx < Len(charlist)
    /\ found_any' = FALSE
    /\ any_unverified' = FALSE
    /\ out' = Append(out, [Text("searching") EXCEPT !.item = item])
    /\ index' = 0
    /\ pc' = "lines"
    /\ UNCHANGED <<lines, charlist, itemIdx, unverified_this_line, buffer,
                   item_positions, posIdx, position, character, left_context,
                   right_context, verdict, err, ret>>

\* the head of the loop over the lines: a line without the character is passed
LineStart ==
    /\ pc = "lines"
    /\ index < Len(lines)
    /\ LET line == rstrip_newline(lines[index + 1])
       IN  IF Contains(line, <<item>>)
           THEN /\ found_any' = TRUE
                /\ unverified_this_line' = FALSE
                /\ buffer' = <<[Text("line") EXCEPT !.line = index + 1]>>
                /\ item_positions' = findall(line, item)
                /\ posIdx' = 0
                /\ pc' = "positions"
                /\ UNCHANGED index
           ELSE /\ index' = index + 1
                /\ UNCHANGED <<found_any, unverified_this_line, buffer,
                               item_positions, posIdx, pc>>
    /\ UNCHANGED <<lines, charlist, itemIdx, any_unverified, position, character,
                   left_context, right_context, verdict, out, err, ret>>

\* determine context
left_extent(p) == IF p < SNIPPET_RADIUS THEN 0 ELSE p - SNIPPET_RADIUS
extract_left(line, p) == Slice(line, left_extent(p), p)
\* the right slice ending one character early
extract_right_short(line, p) == Slice(line, p + 1, p + SNIPPET_RADIUS)
extract_right(line, p) == Slice(line, p + 1, p + 1 + SNIPPET_RADIUS)

Extract ==
    /\ pc = "positions"
    /\ posIdx < Len(item_positions)
    /\ position' = item_positions[posIdx + 1]
    /\ left_context' = extract_left(rstrip_newline(lines[index + 1]), position')
    /\ right_context' = extract_right(rstrip_newline(lines[index + 1]), position')
    /\ character' = item
    /\ pc' = "verify"
    /\ UNCHANGED <<lines, charlist, index, itemIdx, found_any, any_unverified,
                   unverified_this_line, buffer, item_positions, posIdx, verdict,
                   out, err, ret>>

\* the call verify(character, left_context, right_context); an IndexError is
\* caught nowhere, it ends the program
VerifyCall ==
    /\ pc = "verify"
    /\ verdict' = verify(character, left_context, right_context)
    /\ err' = err \o verify_stderr(character)
    /\ pc' = IF verdict' = "IndexError" THEN "crashed" ELSE "verified"
    /\ UNCHANGED <<lines, charlist, index, itemIdx, found_any, any_unverified,
                   unverified_this_line, buffer, item_positions, posIdx, position,
                   character, left_context, right_context, out, ret>>

\* if verify(...): continue / else: the occurrence goes to the print buffer
Flag ==
    /\ pc = "verified"
    /\ IF verdict = "True"
       THEN UNCHANGED <<any_unverified, unverified_this_line, buffer>>
       ELSE /\ any_unverified' = TRUE
            /\ unverified_this_line' = TRUE
            /\ buffer' = Append(buffer, [Text("pos") EXCEPT !.line = index + 1,
                                                            !.pos = position,
                                                            !.item = character,
                                                            !.left = left_context,
                                                            !.right = right_context])
    /\ posIdx' = posIdx + 1
    /\ pc' = "positions"
    /\ UNCHANGED <<lines, charlist, index, itemIdx, found_any, item_positions,
                   position, character, left_context, right_context, verdict,
                   out, err, ret>>

LineEnd ==
    /\ pc = "positions"
    /\ posIdx = Len(item_positions)
    /\ out' = IF unverified_this_line THEN out \o buffer \o <<Text("empty")>> ELSE out
    /\ index' = index + 1
    /\ pc' = "lines"
    /\ UNCHANGED <<lines, charlist, itemIdx, found_any, any_unverified,
                   unverified_this_line, buffer, item_positions, posIdx, position,
                   character, left_context, right_context, verdict, err, ret>>

\* the summary with the test of any_unverified inverted
item_summary_inverted(found, unverified, c) ==
    IF ~found THEN <<[Text("none_found") EXCEPT !.item = c]>>
    ELSE IF unverified THEN <<[Text("all_verified") EXCEPT !.item = c]>>
    ELSE <<>>

item_summary(found, unverified, c) ==
    IF ~found THEN <<[Text("none_found") EXCEPT !.item = c]>>
    ELSE IF ~unverified THEN <<[Text("all_verified") EXCEPT !.item = c]>>
    ELSE <<>>

ItemSummary ==
    /\ pc = "lines"
    /\ index = Len(lines)
    /\ out' = out \o item_summary(found_any, any_unverified, item)
                  \o <<Text("empty")>>
    /\ itemIdx' = itemIdx + 1
    /\ pc' = "items"
    /\ UNCHANGED <<lines, charlist, index, found_any, any_unverified,
                   unverified_this_line, buffer, item_positions, posIdx, position,
                   character, left_context, right_context, verdict, err, ret>>

Return ==
    /\ pc = "items"
    /\ itemIdx = Len(charlist)
    /\ ret' = 0
    /\ pc' = "done"
    /\ UNCHANGED <<lines, charlist, index, itemIdx, found_any, any_unverified,
                   unverified_this_line, buffer, item_positions, posIdx, position,
                   character, left_context, right_context, verdict, out, err>>

(***************************************************************************)
(* Inputs.                                                                 *)
(***************************************************************************)
\* the strings of at most n characters of A
Strings(A, n) == UNION {[1..k -> A] : k \in 0..n}

\* the line bodies of the documents of at most n characters, the newline that
\* ends a line counted
RECURSIVE Bodies(_, _)
Bodies(A, n) ==
    {<<>>} \cup UNION {{<<s>> \o d : d \in Bodies(A, n - Len(s) - 1)} : s \in Strings(A, n - 1)}

\* readlines(): every line ends with a newline, except possibly the last one,
\* which is then not empty
Documents(A, n) ==
    LET Read(b, nl) == [i \in 1..Len(b) |->
                           IF i < Len(b) \/ nl THEN b[i] \o <<NEWLINE>> ELSE b[i]]
    IN  {Read(b, TRUE) : b \in Bodies(A, n)}
        \cup {Read(b, FALSE) : b \in {x \in Bodies(A, n) : Len(x) > 0 /\ Len(x[Len(x)]) > 0}}

\* the lists of at most n distinct characters of A in increasing order (main
\* passes a sorted list)
CharLists(A, n) ==
    {s \in UNION {[1..k -> A] : k \in 0..n} : \A i \in 1..(Len(s) - 1) : s[i] < s[i + 1]}

\* the state on entry to runchecks(doc, chars)
Entry(doc, chars) ==
    /\ lines = doc
    /\ charlist = chars
    /\ pc = "start"
    /\ index = 0
    /\ itemIdx = 0
    /\ found_any = FALSE
    /\ any_unverified = FALSE
    /\ unverified_this_line = FALSE
    /\ buffer = <<>>
    /\ item_positions = <<>>
    /\ posIdx = 0
    /\ position = 0
    /\ character = 0
    /\ left_context = <<>>
    /\ right_context = <<>>
    /\ verdict = "none"
    /\ out = <<>>
    /\ err = <<>>
    /\ ret = -1

\* runchecks over small documents of the letter a, the straight double quote
\* (no checks defined) and the left double quote; the right double quote of
\* RunChars occurs in no document
RunMaxChars == 5
RunMaxItems == 3
RunAlphabet == {97, QUOTE, LDQUO}
RunChars == {QUOTE, LDQUO, RDQUO}

Init ==
    \E doc \in Documents(RunAlphabet, RunMaxChars),
       chars \in CharLists(RunChars, RunMaxItems) : Entry(doc, chars)

Next ==
    \/ Start
    \/ BlankCheckLine
    \/ BlankDone
    \/ PeriodCheck
    \/ ItemStart
    \/ LineStart
    \/ Extract
    \/ VerifyCall
    \/ Flag
    \/ LineEnd
    \/ ItemSummary
    \/ Return

Spec == Init /\ [][Next]_vars

(***************************************************************************)
(* verify alone, over all short contexts.                                  *)
(***************************************************************************)
VerifyMaxContext == 2
\* a letter, a blank, a digit, a period, the brackets and the double quotes
VerifyAlphabet == {97, SPACE, 49, PERIOD, LBRACKET, RBRACKET, LDQUO, RDQUO}
VerifyChars == CHARS_WORTH_CHECKING

InitVerify ==
    /\ lines = <<>>
    /\ charlist = <<>>
    /\ pc = "verify"
    /\ index = 0
    /\ itemIdx = 0
    /\ found_any = FALSE
    /\ any_unverified = FALSE
    /\ unverified_this_line = FALSE
    /\ buffer = <<>>
    /\ item_positions = <<>>
    /\ posIdx = 0
    /\ position = 0
    /\ character \in VerifyChars
    /\ left_context \in Strings(VerifyAlphabet, VerifyMaxContext)
    /\ right_context \in Strings(VerifyAlphabet, VerifyMaxContext)
    /\ verdict = "none"
    /\ out = <<>>
    /\ err = <<>>
    /\ ret = -1

NextVerify == VerifyCall

SpecVerify == InitVerify /\ [][NextVerify]_vars

(***************************************************************************)
(* runchecks over one line longer than twice the snippet radius: the line  *)
(* abcdefgh... with the straight double quote put at some positions, and   *)
(* searched for that quote.                                                *)
(***************************************************************************)
ExtractMaxLen == 23
ExtractMaxQuotes == 2

ExtractLines ==
    {[i \in 1..n |-> IF \E k \in 1..ExtractMaxQuotes : at[k] = i - 1
                     THEN QUOTE
                     ELSE 97 + ((i - 1) % 26)] :
        n \in 0..ExtractMaxLen, at \in [1..ExtractMaxQuotes -> -1..(ExtractMaxLen - 1)]}

InitExtract == \E s \in ExtractLines : Entry(<<s \o <<NEWLINE>>>>, <<QUOTE>>)

SpecExtract == InitExtract /\ [][Next]_vars

(***************************************************************************)
(* The blank space check and the check for bad periods, over documents of  *)
(* letters, blanks and periods.                                            *)
(***************************************************************************)
TextMaxChars == 7
TextAlphabet == {97, SPACE, PERIOD}

InitText == \E doc \in Documents(TextAlphabet, TextMaxChars) : Entry(doc, <<>>)

NextText ==
    \/ Start
    \/ BlankCheckLine
    \/ BlankDone
    \/ PeriodCheck

SpecText == InitText /\ [][NextText]_vars

(***************************************************************************)
(* Properties.  They are stated on the strings themselves, not with the    *)
(* operators above, wherever the operator is what the property is about.   *)
(***************************************************************************)
\* the call of verify has ended, by a return or by an exception
Called == pc \in {"verified", "crashed"}

Last(s) == s[Len(s)]

\* s without its trailing newlines
Stripped(s) ==
    LET k == CHOOSE k \in 0..Len(s) :
                 /\ k = 0 \/ s[k] # NEWLINE
                 /\ \A j \in (k + 1)..Len(s) : s[j] = NEWLINE
    IN  SubSeq(s, 1, k)

\* the increasing sequence of the elements of a finite set of integers
RECURSIVE Ascending(_)
Ascending(S) ==
    IF S = {} THEN <<>>
    ELSE LET greatest == CHOOSE x \in S : \A y \in S : y <= x
         IN  Append(Ascending(S \ {greatest}), greatest)

StrictlyIncreasing(s) == \A i \in 1..(Len(s) - 1) : s[i] < s[i + 1]

\* the number of the records of a kind in a sequence of printed lines
Count(text, kind) == Cardinality({i \in 1..Len(text) : text[i].kind = kind})

\* C1: verify is total: for each of the seven defined characters and every
\* pair of contexts it returns a boolean verdict without raising; for any
\* other character it reports an error and returns false.
C1_VerifyTotal ==
    Called =>
        IF character \in defined
        THEN verdict \in {"True", "False"}
        ELSE verdict = "False" /\ err = <<character>>

\* the occurrences of character c in line n (1-based) of the document
Occurrences(c, n) ==
    {p \in 0..(Len(Stripped(lines[n])) - 1) : Stripped(lines[n])[p + 1] = c}

\* the occurrences that the output reports as flagged for character c
Flagged(c) ==
    {<<out[i].line, out[i].pos>> : i \in {j \in 1..Len(out) :
                                            out[j].kind = "pos" /\ out[j].item = c}}

\* C2: in runchecks, for every character of the list that has no rule,
\* every occurrence in every line is reported as flagged, and the run is not
\* aborted: all remaining lines and characters are processed and runchecks
\* returns 0.
C2_UnsupportedFlaggedRunCompletes ==
    \A k \in 1..Len(charlist) :
        charlist[k] \notin defined =>
            /\ pc # "crashed"
            /\ pc = "done" =>
                   /\ ret = 0
                   /\ Flagged(charlist[k]) =
                          {<<n, p>> \in (1..Len(lines)) \X (0..RunMaxChars) :
                               p \in Occurrences(charlist[k], n)}

\* what never fails: verify does not raise for a character without a rule
UnsupportedNeverRaises == pc = "crashed" => character \in defined

\* C3: for a left single or double quote: with both contexts non-empty the
\* verdict is true iff the last character of the left context is whitespace
\* and the first of the right context is alphabetic; with an empty left
\* context, iff the first character of the right context is alphabetic; with
\* an empty right context it is false, also when the left context is empty.
C3_LeftQuoteRule ==
    (Called /\ character \in {LSQUO, LDQUO}) =>
        verdict = Bool(IF Len(right_context) = 0 THEN FALSE
                       ELSE IF Len(left_context) = 0 THEN isalpha(right_context[1])
                       ELSE isspace(Last(left_context)) /\ isalpha(right_context[1]))

\* C4: for a right single quote: with both contexts non-empty the verdict is
\* true iff ((the preceding character is alphabetic or punctuation) and the
\* following is whitespace) or (both are alphabetic); with an empty right
\* context, iff the preceding character is alphabetic or punctuation; with an
\* empty left context it is false, also when the right context is empty.
C4_RightSingleQuoteRule ==
    (Called /\ character = RSQUO) =>
        verdict = Bool(IF Len(left_context) = 0 THEN FALSE
                       ELSE IF Len(right_context) = 0
                            THEN isalpha(Last(left_context))
                                 \/ Last(left_context) \in PUNCTUATION
                       ELSE \/ /\ isalpha(Last(left_context))
                                  \/ Last(left_context) \in PUNCTUATION
                               /\ isspace(right_context[1])
                            \/ /\ isalpha(Last(left_context))
                               /\ isalpha(right_context[1]))

\* C9: for the ellipsis, rule (d): whenever the character immediately to the
\* left is the opening double quotation mark and the right context is a
\* whitespace character followed by an alphabetic character, verify returns
\* true, whatever the length of the left context.
C9_EllipsisAfterOpeningQuote ==
    (/\ Called
     /\ character = HELLIP
     /\ Len(left_context) >= 1
     /\ Last(left_context) = LDQUO
     /\ Len(right_context) >= 2
     /\ isspace(right_context[1])
     /\ isalpha(right_context[2])) => verdict = "True"

\* C10: for the en dash and every pair of contexts, also of length 0 or 1,
\* verify returns true iff (the characters immediately before and after are
\* both alphabetic) or (the left context ends with alphabetic-then-whitespace
\* and the right context starts with whitespace-then-alphabetic), and false
\* otherwise.
C10_EnDashRule ==
    (Called /\ character = NDASH) =>
        verdict = Bool(\/ /\ Len(left_context) >= 1
                          /\ Len(right_context) >= 1
                          /\ isalpha(Last(left_context))
                          /\ isalpha(right_context[1])
                       \/ /\ Len(left_context) >= 2
                          /\ Len(right_context) >= 2
                          /\ isalpha(left_context[Len(left_context) - 1])
                          /\ isspace(Last(left_context))
                          /\ isspace(right_context[1])
                          /\ isalpha(right_context[2]))

\* the snippets around position p of a line: up to SNIPPET_RADIUS characters
SnippetLeft(line, p) == SubSeq(line, p - Min(p, SNIPPET_RADIUS) + 1, p)
SnippetRight(line, p) ==
    SubSeq(line, p + 2, p + 1 + Min(Len(line) - p - 1, SNIPPET_RADIUS))

\* the occurrences of c in line n for which verify is not true
Unverified(c, n) ==
    {p \in Occurrences(c, n) :
        verify(c, SnippetLeft(Stripped(lines[n]), p),
                  SnippetRight(Stripped(lines[n]), p)) # "True"}

\* what the search for c is to print: per line with an unverified
\* occurrence a block (the line, its unverified positions from left to right,
\* an empty line), then the summary and an empty line
RECURSIVE ExpectedBlocks(_, _)
ExpectedBlocks(c, n) ==
    IF n > Len(lines) THEN <<>>
    ELSE (IF Unverified(c, n) = {} THEN <<>>
          ELSE <<<<"line", n, 0>>>>
               \o [j \in 1..Cardinality(Unverified(c, n)) |->
                      <<"pos", n, Ascending(Unverified(c, n))[j]>>]
               \o <<<<"empty", 0, 0>>>>)
         \o ExpectedBlocks(c, n + 1)

ExpectedSummary(c) ==
    IF \A n \in 1..Len(lines) : Occurrences(c, n) = {}
    THEN <<<<"none_found", 0, 0>>>>
    ELSE IF \A n \in 1..Len(lines) : Unverified(c, n) = {}
         THEN <<<<"all_verified", 0, 0>>>>
         ELSE <<>>

\* the printed lines of the search for the k-th character of the list
SearchingAt(k) ==
    CHOOSE i \in 1..Len(out) :
        /\ out[i].kind = "searching"
        /\ Cardinality({j \in 1..i : out[j].kind = "searching"}) = k

Section(k) ==
    SubSeq(out, SearchingAt(k) + 1,
           IF Count(out, "searching") > k THEN SearchingAt(k + 1) - 1 ELSE Len(out))

Shape(text) == [i \in 1..Len(text) |-> <<text[i].kind, text[i].line, text[i].pos>>]

\* C5: for each character whose lines are all scanned, exactly one of three
\* outcomes is reported: 'None found.' iff no line contains the character;
\* 'All occurrences verified.' iff a line contains it and verify is true for
\* every occurrence; otherwise neither, and one block per line that has an
\* unverified occurrence, listing exactly its unverified occurrences from
\* left to right.
C5_ThreeOutcomes ==
    \A k \in 1..itemIdx :
        Shape(Section(k)) =
            ExpectedBlocks(charlist[k], 1) \o ExpectedSummary(charlist[k])
            \o <<<<"empty", 0, 0>>>>

\* a finished run that reported each of the three outcomes for one character
C5_Witness ==
    /\ pc = "done"
    /\ Count(out, "none_found") = 1
    /\ Count(out, "all_verified") = 1
    /\ Count(out, "pos") >= 1

\* C6: for every occurrence position p the left snippet is exactly the
\* min(p, R) characters before p and the right snippet exactly the
\* min(len(line) - p - 1, R) characters after p; the occurrence positions are
\* all positions of the character, in increasing order.
C6_SnippetsAndPositions ==
    /\ pc = "verify" =>
           LET line == Stripped(lines[index + 1])
               p == position
           IN  /\ Len(left_context) = Min(p, SNIPPET_RADIUS)
               /\ \A j \in 1..Len(left_context) :
                      left_context[j] = line[p - Len(left_context) + j]
               /\ Len(right_context) = Min(Len(line) - p - 1, SNIPPET_RADIUS)
               /\ \A j \in 1..Len(right_context) : right_context[j] = line[p + 1 + j]
    /\ pc = "positions" =>
           /\ StrictlyIncreasing(item_positions)
           /\ {item_positions[i] : i \in 1..Len(item_positions)} =
                  Occurrences(item, index + 1)

\* an occurrence more than R characters away from both ends of its line
C6_Witness ==
    /\ pc = "verify"
    /\ position > SNIPPET_RADIUS
    /\ Len(Stripped(lines[index + 1])) - position - 1 > SNIPPET_RADIUS
    /\ Len(left_context) = SNIPPET_RADIUS
    /\ Len(right_context) = SNIPPET_RADIUS

\* the maximal runs <<start, length>> of at least two whitespace characters
BlankRuns(line) ==
    {<<s, l>> \in (0..Len(line)) \X (2..Len(line)) :
        /\ s + l <= Len(line)
        /\ \A q \in s..(s + l - 1) : isspace(line[q + 1])
        /\ s = 0 \/ ~isspace(line[s])
        /\ s + l = Len(line) \/ ~isspace(line[s + l + 1])}

\* the blank sequences reported for line n, in the order of the output
ReportedRuns(n) ==
    LET at == Ascending({i \in 1..Len(out) :
                            out[i].kind = "blank_sequence" /\ out[i].line = n})
    IN  [j \in 1..Len(at) |-> <<out[at[j]].pos, out[at[j]].len>>]

\* C7: for every line (trailing newline stripped) the blank space check
\* reports exactly the maximal runs of at least two consecutive whitespace
\* positions, each once with its start and length; a line without any
\* whitespace produces no output at all.
C7_BlankRuns ==
    pc \in {"blanks", "periods"} =>
        /\ \A n \in 1..index :
               /\ StrictlyIncreasing([j \in 1..Len(ReportedRuns(n)) |-> ReportedRuns(n)[j][1]])
               /\ {ReportedRuns(n)[j] : j \in 1..Len(ReportedRuns(n))} =
                      BlankRuns(Stripped(lines[n]))
               /\ (\A q \in 1..Len(Stripped(lines[n])) : ~isspace(Stripped(lines[n])[q])) =>
                      \A i \in 1..Len(out) : out[i].line # n
        /\ Count(out, "empty") =
               Cardinality({n \in 1..index :
                   \/ BlankRuns(Stripped(lines[n])) # {}
                   \/ /\ Len(Stripped(lines[n])) > 0
                      /\ isspace(Last(Stripped(lines[n])))})

\* a line with two separate runs was checked
C7_Witness ==
    /\ pc = "periods"
    /\ \E n \in 1..Len(lines) : Len(ReportedRuns(n)) = 2

\* line n holds two consecutive periods (so also three), or ". . ."
BadPeriods(n) ==
    \/ \E q \in 1..(Len(lines[n]) - 1) : lines[n][q] = PERIOD /\ lines[n][q + 1] = PERIOD
    \/ \E q \in 1..(Len(lines[n]) - 4) :
           /\ lines[n][q] = PERIOD
           /\ lines[n][q + 1] = SPACE
           /\ lines[n][q + 2] = PERIOD
           /\ lines[n][q + 3] = SPACE
           /\ lines[n][q + 4] = PERIOD

\* C8: the check for bad periods reports a 1-based line number iff the line
\* contains "..", "..." or ". . ."; the numbers form a single strictly
\* increasing list, and when no line matches the 'none found' message is
\* printed instead of a list.
C8_BadPeriodLines ==
    Count(out, "periods_done") = 1 =>
        IF \E n \in 1..Len(lines) : BadPeriods(n)
        THEN /\ Count(out, "periods_none") = 0
             /\ Count(out, "periods_list") = 1
             /\ \A i \in 1..Len(out) :
                    out[i].kind = "periods_list" =>
                        /\ StrictlyIncreasing(out[i].list)
                        /\ {out[i].list[j] : j \in 1..Len(out[i].list)} =
                               {n \in 1..Len(lines) : BadPeriods(n)}
        ELSE /\ Count(out, "periods_none") = 1
             /\ Count(out, "periods_list") = 0

\* the second line alone is reported, for ". . ."
C8_Witness ==
    \E i \in 1..Len(out) :
        /\ out[i].kind = "periods_list"
        /\ out[i].list = <<2>>
        /\ Len(lines[2]) >= 5
        /\ SubSeq(lines[2], 1, 5) = <<PERIOD, SPACE, PERIOD, SPACE, PERIOD>>

====
